---------------------------- MODULE Spec2Model ----------------------------
(***************************************************************************)
(* A model of graphqlex (src/src/graphqlex.ts): the Api facade, its lazily *)
(* created Socket, the handshake and the multiplexing of subscriptions     *)
(* over one WebSocket.                                                     *)
(*                                                                         *)
(* One Api instance is modelled.  JavaScript objects created by subscribe  *)
(* (the SocketSubscription literals of line 220) live in the heap          *)
(* `objects`; the Socket's `subscriptions` dictionary and the closures of  *)
(* the returned Subscription handles hold references (indices) into it.    *)
(* Every action is one synchronous call or one transport callback, run to  *)
(* completion; an exception leaving the call is recorded in `threw`.       *)
(***************************************************************************)
EXTENDS Naturals, Sequences, FiniteSets

\* Longest outbound history that is explored (frames sent on the WebSocket).
MaxWire == 6

\* Largest number of successful subscribe calls that is explored.
MaxSubscriptions == 2

\* Channel names passed to (or generated for) subscribe.  "toString" stands
\* for a name that every JavaScript object inherits from Object.prototype.
ChannelNames == {"a", "b", "toString"}

\* Names for which a lookup on a plain object literal {} finds an inherited,
\* truthy property without any own property having been assigned.
PrototypeKeys == {"toString"}

Queries == {"q1"}

\* Data handlers a caller may attach (functions), and the absent handler.
Handlers == {"f1", "f2"}
NoHandler == "undefined"

\* Values of Socket.log: unset, or a function given through `api.log = fn`.
LogSinks == {"sink"}
NoLog == "undefined"

NoId == "undefined"

VARIABLES
    socket,             \* Api.socket: FALSE while undefined, TRUE once created
    connected,          \* Socket.connected
    connectedHandlers,  \* Socket.connectedHandlers: the start messages the closures send
    subscriptions,      \* Socket.subscriptions: channel name -> reference into objects
    objects,            \* heap of SocketSubscription objects: [dataHandler]
    handles,            \* Subscription handles returned so far: [name, obj]
    socketLog,          \* Socket.log
    wsOpen,             \* the WebSocket has signalled onopen
    wire,               \* frames passed to webSocket.send, in order
    threw,              \* exception that left the last call ("none" if it returned)
    invoked,            \* data handler calls made by the last call: <<[obj, handler, data]>>
    logged,             \* strings passed to Socket.log by the last call
    lastCall,           \* the last call and its arguments
    lastAttached,       \* history: per object, the handler last passed to its handle's onData
    created,            \* history: the number of Socket objects constructed so far
    ctor,               \* a call of the Api constructor: its arguments and what it left
    req,                \* a call of Api.run: its position, arguments, fetch call and outcome
    trim                \* calls of trimInput: the arguments and what each call left

vars == <<socket, connected, connectedHandlers, subscriptions, objects, handles,
          socketLog, wsOpen, wire, threw, invoked, logged, lastCall, lastAttached,
          created, ctor, req, trim>>

\* The variables of the subscription side.
socketVars ==
    <<socket, connected, connectedHandlers, subscriptions, objects, handles,
      socketLog, wsOpen, wire, threw, invoked, logged, lastCall, lastAttached,
      created>>

EmptyMap == [n \in {} |-> 0]

\* ---------------------------------------------------------------- messages

\* subscribe's `message` (lines 196-203); variables is the default {}.
StartMessage(query, channelName) ==
    [id |-> channelName, type |-> "start", payload |-> query]

\* onopen's message (lines 260-263); the payload is the Api's headers.
InitMessage ==
    [id |-> NoId, type |-> "connection_init", payload |-> "headers"]

\* webSocket.send(JSON.stringify(message)) on an open transport.
Send(w, message) == Append(w, message)

\* The outcome of a call: it returned, or an exception of class `name` with
\* the given message parts left it.
Returned == [name |-> "none", message |-> <<>>]
Thrown(name, message) == [name |-> name, message |-> message]

\* The state of the subscription side of a freshly constructed Api.
SocketInit ==
    /\ socket = FALSE
    /\ connected = FALSE
    /\ connectedHandlers = <<>>
    /\ subscriptions = EmptyMap
    /\ objects = <<>>
    /\ handles = {}
    /\ socketLog = NoLog
    /\ wsOpen = FALSE
    /\ wire = <<>>
    /\ threw = Returned
    /\ invoked = <<>>
    /\ logged = <<>>
    /\ lastCall = [op |-> "new Api"]
    /\ lastAttached = <<>>
    /\ created = 0

\* ---------------------------------------------------------------- subscribe

\* Mutation of SubscriptionExists: the duplicate check is missing.
SubscriptionExists_Unchecked(subs, channelName) == FALSE

\* this.socket.subscriptions[channelName] is truthy (line 207): an own entry
\* (always an object), or a property inherited from Object.prototype.
SubscriptionExists(subs, channelName) ==
    channelName \in DOMAIN subs \/ channelName \in PrototypeKeys

\* Mutation of SendNow: the start message is sent without looking at the
\* handshake state.
SendNow_Always == TRUE

\* line 210: the start message is sent now only when the handshake is done.
SendNow == connected

\* Mutation of PushHandler: unshift instead of push.
PushHandler_Front(hs, startSub) == <<startSub>> \o hs

\* line 213: this.socket.connectedHandlers.push(startSub)
PushHandler(hs, startSub) == Append(hs, startSub)

\* Mutation of InitialHandlers: the constructor drops its onConnected argument.
InitialHandlers_Dropped(onConnected) == <<>>

\* line 253: this.connectedHandlers = onConnected ? [onConnected] : []
InitialHandlers(onConnected) == <<onConnected>>

\* Mutation of HasSocket: the socket field is never found set.
HasSocket_Never == FALSE

\* line 205: if (this.socket)
HasSocket == socket

\* line 220: this.socket.subscriptions[channelName] = {} (a fresh object)
Register(subs, channelName, ref) ==
    [n \in DOMAIN subs \cup {channelName} |->
        IF n = channelName THEN ref ELSE subs[n]]

Subscribe(query, channelName) ==
    LET message == StartMessage(query, channelName)
        ref == Len(objects) + 1
        base == IF HasSocket THEN subscriptions ELSE EmptyMap
    IN
    /\ lastCall' = [op |-> "subscribe", id |-> channelName]
    /\ UNCHANGED <<ctor, req, trim>>
    /\ invoked' = <<>>
    /\ logged' = <<>>
    /\ IF HasSocket /\ SubscriptionExists(subscriptions, channelName)
       THEN \* line 208: throw new Error("Subscription already exists ...")
            /\ threw' = Thrown("Error", <<"Subscription already exists for channel", channelName>>)
            /\ UNCHANGED <<socket, connected, connectedHandlers, subscriptions,
                           objects, handles, socketLog, wsOpen, wire, lastAttached,
                           created>>
       ELSE /\ Len(objects) < MaxSubscriptions
            /\ threw' = Returned
            /\ IF HasSocket
               THEN IF SendNow
                    THEN /\ Len(wire) < MaxWire
                         /\ wire' = Send(wire, message)
                         /\ UNCHANGED <<connectedHandlers, connected, socketLog, wsOpen,
                                        created>>
                    ELSE /\ connectedHandlers' = PushHandler(connectedHandlers, message)
                         /\ UNCHANGED <<wire, connected, socketLog, wsOpen, created>>
               ELSE \* lines 216-217: new Socket(...); the log getter reads the
                    \* new socket's own (unset) log, so nothing is copied.
                    /\ created' = created + 1
                    /\ connected' = FALSE
                    /\ connectedHandlers' = InitialHandlers(message)
                    /\ socketLog' = NoLog
                    /\ wsOpen' = FALSE
                    /\ UNCHANGED wire
            /\ socket' = TRUE
            /\ objects' = Append(objects, [dataHandler |-> NoHandler])
            /\ subscriptions' = Register(base, channelName, ref)
            /\ handles' = handles \cup {[name |-> channelName, obj |-> ref]}
            /\ lastAttached' = Append(lastAttached, NoHandler)

\* ---------------------------------------------------------------- transport

\* webSocket.onopen (lines 259-266)
Open ==
    /\ socket
    /\ ~wsOpen
    /\ wsOpen' = TRUE
    /\ wire' = Send(wire, InitMessage)
    /\ lastCall' = [op |-> "onopen"]
    /\ UNCHANGED <<ctor, req, trim, created>>
    /\ threw' = Returned
    /\ invoked' = <<>>
    /\ logged' = <<>>
    /\ UNCHANGED <<socket, connected, connectedHandlers, subscriptions, objects,
                   handles, socketLog, lastAttached>>

\* ---------------------------------------------------------------- handles

\* Mutation of AttachHandler: a handler already attached is kept.
AttachHandler_KeepFirst(objs, ref, handler) ==
    IF objs[ref].dataHandler = NoHandler
    THEN [objs EXCEPT ![ref] = [dataHandler |-> handler]]
    ELSE objs

\* Subscription.onData (lines 222-225): writes the object captured by the
\* closure and returns the same handle.
AttachHandler(objs, ref, handler) ==
    [objs EXCEPT ![ref] = [dataHandler |-> handler]]

OnData(h, handler) ==
    /\ h \in handles
    /\ objects' = AttachHandler(objects, h.obj, handler)
    /\ lastCall' = [op |-> "onData", id |-> h.name, obj |-> h.obj, handler |-> handler]
    /\ UNCHANGED <<ctor, req, trim, created>>
    /\ threw' = Returned
    /\ invoked' = <<>>
    /\ logged' = <<>>
    /\ lastAttached' = [lastAttached EXCEPT ![h.obj] = handler]
    /\ UNCHANGED <<socket, connected, connectedHandlers, subscriptions, handles,
                   socketLog, wsOpen, wire>>

\* Subscription.close (lines 226-229), called as handle.close(): `this` is the
\* handle `result`, which has no `socket` property, so evaluating
\* this.socket.subscriptions raises a TypeError before the delete is reached.
Close(h) ==
    /\ h \in handles
    /\ lastCall' = [op |-> "close", id |-> h.name, obj |-> h.obj]
    /\ UNCHANGED <<ctor, req, trim, created>>
    /\ threw' = Thrown("TypeError", <<"Cannot read properties of undefined", "subscriptions">>)
    /\ invoked' = <<>>
    /\ logged' = <<>>
    /\ UNCHANGED <<socket, connected, connectedHandlers, subscriptions, objects,
                   handles, socketLog, wsOpen, wire, lastAttached>>

\* ---------------------------------------------------------------- Api.log

\* set log (fn) (lines 150-154): stored only on an existing socket.
SetLog(fn) ==
    /\ socketLog' = IF socket THEN fn ELSE socketLog
    /\ lastCall' = [op |-> "set log", fn |-> fn, hadSocket |-> socket]
    /\ UNCHANGED <<ctor, req, trim, created>>
    /\ threw' = Returned
    /\ invoked' = <<>>
    /\ logged' = <<>>
    /\ UNCHANGED <<socket, connected, connectedHandlers, subscriptions, objects,
                   handles, wsOpen, wire, lastAttached>>

\* ---------------------------------------------------------------- onmessage

\* Inbound frames (event.data).  A frame is text that is not JSON, the JSON
\* text `null`, or the JSON text of an object {type, id?, payload?}.
MessageTypes ==
    {"subscription_fail", "error", "data", "ka", "connection_ack", "init_fail",
     "subscription_success", "bogus"}

\* Types whose messages name a channel and may carry a payload.
ChannelTypes == {"subscription_fail", "error", "data"}

NoPayload == [present |-> FALSE, data |-> "undefined", message |-> "undefined"]

Payloads ==
    { NoPayload,
      [present |-> TRUE, data |-> "d1", message |-> "undefined"],
      [present |-> TRUE, data |-> "undefined", message |-> "boom"] }

Frames ==
    { [kind |-> k, type |-> "undefined", id |-> NoId, payload |-> NoPayload] :
        k \in {"garbage", "null"} }
    \cup
    { [kind |-> "object", type |-> t, id |-> NoId, payload |-> NoPayload] :
        t \in MessageTypes \ ChannelTypes }
    \cup
    { [kind |-> "object", type |-> t, id |-> i, payload |-> p] :
        t \in ChannelTypes, i \in ChannelNames \cup {NoId}, p \in Payloads }

\* Mutation of HasHandler: only the registration is tested, not the handler.
HasHandler_RegistrationOnly(subs, objs, id) == id \in DOMAIN subs

\* line 276: this.subscriptions[data.id] && typeof
\* this.subscriptions[data.id].dataHandler === "function".  An inherited
\* property (a PrototypeKeys name with no own entry) is truthy but has no
\* dataHandler.
HasHandler(subs, objs, id) ==
    /\ id \in DOMAIN subs
    /\ objs[subs[id]].dataHandler \in Handlers

\* line 277: the call this.subscriptions[data.id].dataHandler(data.payload.data)
HandlerCall(subs, objs, id, payload) ==
    [obj |-> subs[id], handler |-> objs[subs[id]].dataHandler, data |-> payload.data]

\* lines 280-286: the diagnostic for a type that is neither a failure, data nor ka
TypeDiagnostic(type, id) ==
    CASE type = "connection_ack" -> <<id, "connection_ack, the handshake is complete">>
      [] type = "init_fail" -> <<id, "init_fail returned from the WebSocket server">>
      [] type = "subscription_success" -> <<id, "subscription_success">>
      [] OTHER -> <<"unexpected message type", type, "received from WebSocket server">>

\* line 278
NoHandlerDiagnostic(id) ==
    <<"data received for channel", id, "with no subscription handler">>

\* line 293: if (msg && typeof this.log === "function") this.log(`graphqlx: ${msg}`)
Log(msg) ==
    IF socketLog \in LogSinks THEN <<<<"graphqlx:">> \o msg>> ELSE <<>>

\* line 289: this.connectedHandlers.forEach(connHandler => connHandler()); each
\* handler sends its own start message.
RunConnectedHandlers(w, hs) == w \o hs

\* Mutation of IsAck: every type that reaches line 287 is taken for the
\* acknowledgement.
IsAck_AnyType(type) == TRUE

\* line 287: data.type === "connection_ack"
IsAck(type) == type = "connection_ack"

\* line 287: typeof onConnected === "function"; onConnected is the
\* constructor's argument, always subscribe's startSub.
AckRunsHandlers == TRUE

Quiet ==
    /\ invoked' = <<>>
    /\ logged' = <<>>
    /\ UNCHANGED <<connected, wire>>

OnMessage(frame) ==
    /\ socket
    /\ wsOpen
    /\ lastCall' = [op |-> "onmessage", frame |-> frame]
    /\ UNCHANGED <<ctor, req, trim, created>>
    /\ UNCHANGED <<socket, connectedHandlers, subscriptions, objects, handles,
                   socketLog, wsOpen, lastAttached>>
    /\ CASE frame.kind = "garbage" ->
              \* line 269: JSON.parse throws
              /\ threw' = Thrown("SyntaxError", <<"Unexpected token in JSON">>)
              /\ Quiet
         [] frame.kind = "null" ->
              \* line 272: data.type on null
              /\ threw' = Thrown("TypeError", <<"Cannot read properties of null", "type">>)
              /\ Quiet
         [] frame.kind = "object" /\ frame.type \in {"subscription_fail", "error"} ->
              \* lines 273-274; data?.payload.message reads .message of undefined
              \* when the message has no payload
              /\ threw' = IF frame.payload.present
                          THEN Thrown("Error",
                                 <<"GraphQL", frame.type, "for channel", frame.id,
                                   IF frame.payload.message = "undefined"
                                   THEN "" ELSE frame.payload.message>>)
                          ELSE Thrown("TypeError",
                                 <<"Cannot read properties of undefined", "message">>)
              /\ Quiet
         [] frame.kind = "object" /\ frame.type = "data" ->
              IF HasHandler(subscriptions, objects, frame.id)
              THEN IF frame.payload.present
                   THEN \* line 277: return handler(data.payload.data)
                        /\ invoked' = <<HandlerCall(subscriptions, objects,
                                                    frame.id, frame.payload)>>
                        /\ threw' = Returned
                        /\ logged' = <<>>
                        /\ UNCHANGED <<connected, wire>>
                   ELSE /\ threw' = Thrown("TypeError",
                                      <<"Cannot read properties of undefined", "data">>)
                        /\ Quiet
              ELSE /\ threw' = Returned
                   /\ invoked' = <<>>
                   /\ logged' = Log(NoHandlerDiagnostic(frame.id))
                   /\ UNCHANGED <<connected, wire>>
         [] frame.kind = "object" /\ frame.type = "ka" ->
              /\ threw' = Returned
              /\ Quiet
         [] OTHER ->
              /\ threw' = Returned
              /\ invoked' = <<>>
              /\ logged' = Log(TypeDiagnostic(frame.type, frame.id))
              /\ IF IsAck(frame.type) /\ AckRunsHandlers
                 THEN /\ Len(wire) + Len(connectedHandlers) <= MaxWire
                      /\ connected' = TRUE
                      /\ wire' = RunConnectedHandlers(wire, connectedHandlers)
                 ELSE UNCHANGED <<connected, wire>>

\* ---------------------------------------------------------------- constructor

\* Longest remainder (the part of the URL after the scheme's "//") explored.
MaxRemainder == 4

\* Strings are sequences of characters.
Http == <<"h", "t", "t", "p">>
Https == <<"h", "t", "t", "p", "s">>
Ftp == <<"f", "t", "p">>
Sep == <<":", "/", "/">>

RemainderChars == {"a", "/"}

Remainders == UNION {[1..n -> RemainderChars] : n \in 0..MaxRemainder}

Urls == {scheme \o Sep \o r : scheme \in {Http, Https, Ftp}, r \in Remainders}

\* options.wsUrl: absent, or an explicit URL.
NoOption == <<>>
WsUrlOptions == {NoOption, <<"w", "s", ":", "/", "/", "x">>}

IsPrefix(p, str) == Len(p) <= Len(str) /\ SubSeq(str, 1, Len(p)) = p

\* line 126: url.match(/^(https?):\/\//); the capture group, or <<>> when the
\* match is null.
MatchProtocol(url) ==
    IF IsPrefix(Https \o Sep, url) THEN Https
    ELSE IF IsPrefix(Http \o Sep, url) THEN Http
    ELSE <<>>

\* line 128: protocol.match(/s$/)
IsSecure(protocol) == protocol # <<>> /\ protocol[Len(protocol)] = "s"

\* The places where "//" occurs in str.
Slashes(str) == {i \in 1..(Len(str) - 1) : str[i] = "/" /\ str[i + 1] = "/"}

Least(S) == CHOOSE i \in S : \A j \in S : i <= j

\* String.prototype.split("//"): the pieces between successive occurrences,
\* found left to right.
RECURSIVE Split(_)
Split(str) ==
    IF Slashes(str) = {}
    THEN <<str>>
    ELSE LET i == Least(Slashes(str))
         IN <<SubSeq(str, 1, i - 1)>> \o Split(SubSeq(str, i + 2, Len(str)))

\* Array.prototype.join(sep) for an array of strings
RECURSIVE Join(_, _)
Join(parts, sep) ==
    IF parts = <<>> THEN <<>>
    ELSE IF Len(parts) = 1 THEN parts[1]
    ELSE parts[1] \o sep \o Join(Tail(parts), sep)

\* An array that is an element of a joined array is converted with
\* Array.prototype.toString, which joins its elements with ",".
ArrayToString(parts) == Join(parts, <<",">>)

\* line 131: [`ws${isSecure ? "s" : ""}:`, url.split("//").slice(1)].join("//")
DerivedWsUrl(url) ==
    Join(<< <<"w", "s">> \o (IF IsSecure(MatchProtocol(url)) THEN <<"s">> ELSE <<>>)
              \o <<":">>,
            ArrayToString(Tail(Split(url))) >>,
         <<"/", "/">>)

\* line 131: options.wsUrl || derived
ChooseWsUrl(url, option) == IF option # NoOption THEN option ELSE DerivedWsUrl(url)

NewApi(url, option) ==
    [pc |-> "new", url |-> url, option |-> option, wsUrl |-> <<>>, threw |-> "none"]

\* What new Api(url, {wsUrl: option, fetch}) leaves (lines 118-144): the
\* fields url and wsUrl, or a TypeError from indexing a null match (126).
Constructed(url, option) ==
    IF MatchProtocol(url) = <<>>
    THEN [pc |-> "done", url |-> url, option |-> option, wsUrl |-> <<>>,
          threw |-> "TypeError"]
    ELSE [pc |-> "done", url |-> url, option |-> option,
          wsUrl |-> ChooseWsUrl(url, option), threw |-> "none"]

Construct ==
    /\ ctor.pc = "new"
    /\ ctor' = Constructed(ctor.url, ctor.option)
    /\ UNCHANGED socketVars
    /\ UNCHANGED <<req, trim>>

\* ---------------------------------------------------------------- run

\* Longest error message (in characters of the response text) explored.
MaxMessage == 2

\* Header objects map names to values; an absent options.headers spreads as
\* an object without properties.
NoHeaders == [k \in {} |-> ""]

\* standardOptions.headers (lines 3-6)
StandardHeaders ==
    [k \in {"Content-type", "Accept"} |-> "application/json"]

\* options.headers of the bounded set: absent, a new name, a name of the
\* standard headers, both.
HeaderConfigs ==
    { NoHeaders,
      [k \in {"Authorization"} |-> "token"],
      [k \in {"Content-type"} |-> "text/plain"],
      [k \in {"Authorization", "Content-type"} |->
          IF k = "Authorization" THEN "token" ELSE "text/plain"] }

\* Mutation of SpreadHeaders: the standard value wins on a shared name.
SpreadHeaders_StandardWins(first, second) ==
    [k \in DOMAIN first \cup DOMAIN second |->
        IF k \in DOMAIN first THEN first[k] ELSE second[k]]

\* line 163: { ...first, ...second }
SpreadHeaders(first, second) ==
    [k \in DOMAIN first \cup DOMAIN second |->
        IF k \in DOMAIN second THEN second[k] ELSE first[k]]

\* run's variables argument: omitted (the default {} of line 162) or an object.
VariableArgs == {"omitted", "{x:1}"}

RunQueries == {"q1", "q2"}

\* line 170: JSON.stringify({ query, variables })
RequestBody(query, variables) ==
    <<"{query:", query, ",variables:",
      IF variables = "omitted" THEN "{}" ELSE variables, "}">>

\* Values passed to onError and to the configured handler, and thrown: a
\* string, an error entry of the response, or an exception object.
StringValue(chars) ==
    [is |-> "string", class |-> "String", hasMessage |-> FALSE, message |-> chars]
EntryValue(hasMessage, chars) ==
    [is |-> "entry", class |-> "Object", hasMessage |-> hasMessage, message |-> chars]
ExceptionValue(class, chars) ==
    [is |-> "exception", class |-> class, hasMessage |-> TRUE, message |-> chars]

NoValue == StringValue(<<>>)

\* What a rejecting fetch rejects with.
FetchExceptions == {ExceptionValue("TypeError", <<"Failed to fetch">>)}

\* Characters of a JSON string literal in the response text: plain letters,
\* and the escape sequence for a double quote (backslash, quote).
EscapedQuote == "ESCAPED-QUOTE"
MessageUnits == {"b", "o", EscapedQuote}

\* The characters a unit takes in the raw text, and the character it stands for.
UnitText(u) == IF u = EscapedQuote THEN <<"BACKSLASH", "QUOTE">> ELSE <<u>>
UnitChar(u) == IF u = EscapedQuote THEN "QUOTE" ELSE u

MessageLiterals == UNION {[1..n -> MessageUnits] : n \in 1..MaxMessage}

\* Entries of an errors list as the server wrote them.
ErrorEntries ==
    {[hasMessage |-> FALSE, units |-> <<>>]}
    \cup {[hasMessage |-> TRUE, units |-> m] : m \in MessageLiterals}

OtherEntry == [hasMessage |-> TRUE, units |-> <<"o">>]

ErrorLists ==
    {[present |-> FALSE, list |-> <<>>], [present |-> TRUE, list |-> <<>>]}
    \cup {[present |-> TRUE, list |-> <<e>>] : e \in ErrorEntries}
    \cup {[present |-> TRUE, list |-> <<e, OtherEntry>>] : e \in ErrorEntries}

\* The data member as written: absent, null, or a value.
DataTexts == {"absent", "null", "D1"}

NoErrors == [present |-> FALSE, list |-> <<>>]

\* Response bodies: text that is not JSON, the JSON text null, or the JSON
\* text of an object with optional errors and data members.
Bodies ==
    {[kind |-> k, errors |-> NoErrors, data |-> "absent"] : k \in {"none", "garbage", "null"}}
    \cup {[kind |-> "object", errors |-> el, data |-> d] : el \in ErrorLists, d \in DataTexts}

NoBody == [kind |-> "none", errors |-> NoErrors, data |-> "absent"]

RECURSIVE Flatten(_)
Flatten(seqs) ==
    IF seqs = <<>> THEN <<>> ELSE seqs[1] \o Flatten(Tail(seqs))

EntryText(e) ==
    IF e.hasMessage
    THEN <<"{message:", "QUOTE">>
            \o Flatten([i \in 1..Len(e.units) |-> UnitText(e.units[i])])
            \o <<"QUOTE", "}">>
    ELSE <<"{}">>

\* response.text(): the raw characters of the body
ResponseText(body) ==
    CASE body.kind = "garbage" -> <<"<html>">>
      [] body.kind = "null" -> <<"null">>
      [] OTHER ->
            <<"{">>
            \o (IF body.errors.present
                THEN <<"errors:[">>
                        \o Flatten([i \in 1..Len(body.errors.list) |->
                                      EntryText(body.errors.list[i])])
                        \o <<"]">>
                ELSE <<>>)
            \o (IF body.errors.present /\ body.data # "absent" THEN <<",">> ELSE <<>>)
            \o (IF body.data = "absent" THEN <<>> ELSE <<"data:", body.data>>)
            \o <<"}">>

\* The string a message literal denotes once parsed.
ParsedMessage(units) == [i \in 1..Len(units) |-> UnitChar(units[i])]

ParsedEntry(e) == EntryValue(e.hasMessage, ParsedMessage(e.units))

\* response.clone().json(): a SyntaxError for text that is not JSON, else the
\* parsed value (null, or an object with errors and data, undefined if absent).
ResponseJson(body) ==
    [ok |-> body.kind # "garbage",
     isNull |-> body.kind = "null",
     errorsIsArray |-> body.errors.present,
     errors |-> [i \in 1..Len(body.errors.list) |-> ParsedEntry(body.errors.list[i])],
     data |-> IF body.data = "absent" THEN "undefined" ELSE body.data]

\* line 180: Array.isArray(errors) && errors.length
HasErrors(json) == json.errorsIsArray /\ json.errors # <<>>

\* Mutation of ReturnedData: an absent or null data is replaced (data || {}).
ReturnedData_OrEmpty(json) ==
    IF json.data \in {"undefined", "null"} THEN "{}" ELSE json.data

\* line 185: return data
ReturnedData(json) == json.data

DefaultMessage ==
    <<"GraphQL error. Try: Check network connection / Turn off ad blockers">>

\* lines 135-137: the message this.onError derives from its one parameter
OnErrorMessage(err) ==
    IF err.is = "string" THEN err.message
    ELSE IF err.hasMessage /\ err.message # <<>> THEN err.message
    ELSE DefaultMessage

\* Mutation of OnErrorCalls: the configured handler is never called.
OnErrorCalls_Silent(handlerSet, err) == <<>>

\* lines 138-140: options.onError(msg, err) when a handler is configured;
\* err is this.onError's own (single) parameter.
OnErrorCalls(handlerSet, err) ==
    IF handlerSet THEN <<[msg |-> OnErrorMessage(err), err |-> err]>> ELSE <<>>

\* lines 141-142: err instanceof Error ? err : new Error(msg), thrown
OnErrorThrows(err) ==
    IF err.is = "exception" THEN err ELSE ExceptionValue("Error", OnErrorMessage(err))

\* line 175: this.onError("GraphQL Network Error", err); the second argument
\* has no parameter to receive it.
NetworkErrorArgument == StringValue(<<"GraphQL Network Error">>)

\* line 190: this.onError(`Invalid GraphQL response\n${text}`, err)
InvalidResponseArgument(text) == StringValue(<<"Invalid GraphQL response", "NEWLINE">> \o text)

Pending == [status |-> "pending", value |-> "undefined", error |-> NoValue]
Resolved(value) == [status |-> "resolved", value |-> value, error |-> NoValue]
Rejected(error) == [status |-> "rejected", value |-> "undefined", error |-> error]

\* An Api with its options, and no run call made yet.
NewRequest(handlerSet, headers) ==
    [pc |-> "idle", handlerSet |-> handlerSet, headers |-> headers,
     query |-> "", variables |-> "omitted", fetchCalls |-> <<>>,
     fetchError |-> NoValue, response |-> NoBody, reads |-> <<>>,
     handlerCalls |-> <<>>, outcome |-> Pending]

IdleRequest == NewRequest(FALSE, NoHeaders)

\* run is called (lines 162-171): the headers are merged and fetch is called;
\* run waits for it.
RunCall(query, variables) ==
    /\ req.pc = "idle"
    /\ req' = [req EXCEPT
          !.pc = "fetch",
          !.query = query,
          !.variables = variables,
          !.fetchCalls = Append(@,
              [url |-> "url", method |-> "POST",
               headers |-> SpreadHeaders(StandardHeaders, req.headers),
               body |-> RequestBody(query, variables)])]
    /\ UNCHANGED socketVars
    /\ UNCHANGED <<ctor, trim>>

\* fetch throws or rejects (lines 172-177): this.onError is always a function;
\* it calls the handler, if any, and throws, which rejects run.
FetchRejects(exception) ==
    /\ req.pc = "fetch"
    /\ req' = [req EXCEPT
          !.pc = "done",
          !.fetchError = exception,
          !.handlerCalls = @ \o OnErrorCalls(req.handlerSet, NetworkErrorArgument),
          !.outcome = Rejected(OnErrorThrows(NetworkErrorArgument))]
    /\ UNCHANGED socketVars
    /\ UNCHANGED <<ctor, trim>>

\* fetch resolves with a response; run goes on to response.clone().json().
FetchResolves(body) ==
    /\ req.pc = "fetch"
    /\ body.kind # "none"
    /\ req' = [req EXCEPT !.pc = "json", !.response = body,
                          !.reads = Append(@, "json")]
    /\ UNCHANGED socketVars
    /\ UNCHANGED <<ctor, trim>>

\* json() settles (lines 179-186).  A SyntaxError, the TypeError of
\* destructuring null, and the error this.onError throws for a non-empty
\* errors list are all raised inside the try block and caught at line 186;
\* run then waits for response.text().  Otherwise run returns data.
JsonSettles ==
    LET json == ResponseJson(req.response)
    IN
    /\ req.pc = "json"
    /\ IF ~json.ok \/ json.isNull
       THEN req' = [req EXCEPT !.pc = "text", !.reads = Append(@, "text")]
       ELSE IF HasErrors(json)
       THEN req' = [req EXCEPT
               !.pc = "text",
               !.reads = Append(@, "text"),
               !.handlerCalls = @ \o OnErrorCalls(req.handlerSet, json.errors[1])]
       ELSE req' = [req EXCEPT !.pc = "done", !.outcome = Resolved(ReturnedData(json))]
    /\ UNCHANGED socketVars
    /\ UNCHANGED <<ctor, trim>>

\* text() settles (lines 189-190): this.onError is called with the
\* invalid-response message and throws, which rejects run.
TextSettles ==
    LET arg == InvalidResponseArgument(ResponseText(req.response))
    IN
    /\ req.pc = "text"
    /\ req' = [req EXCEPT
          !.pc = "done",
          !.handlerCalls = @ \o OnErrorCalls(req.handlerSet, arg),
          !.outcome = Rejected(OnErrorThrows(arg))]
    /\ UNCHANGED socketVars
    /\ UNCHANGED <<ctor, trim>>

\* ---------------------------------------------------------------- trimInput

\* Longest list among the proposed inputs.
MaxItems == 2

\* JavaScript values: undefined, null, a scalar (string or number), an object
\* with its own properties, an array with its items.
Undefined == [kind |-> "undefined", props |-> <<>>, items |-> <<>>]
Null == [kind |-> "null", props |-> <<>>, items |-> <<>>]
Scalar == [kind |-> "scalar", props |-> <<>>, items |-> <<>>]
Obj(props) == [kind |-> "object", props |-> props, items |-> <<>>]
List(items) == [kind |-> "list", props |-> <<>>, items |-> items]

\* A TypeError left the call.
TypeErrorThrown == [kind |-> "TypeError", props |-> <<>>, items |-> <<>>]

\* An InputTypeInfoMap (lines 316-318) with one input type, T, whose fields
\* are a scalar, an input object of type T and a list of T.
TypeMap ==
    [t \in {"T"} |->
        [name |-> "T",
         fields |-> << [name |-> "a", typeName |-> "String", isList |-> FALSE],
                       [name |-> "b", typeName |-> "T", isList |-> FALSE],
                       [name |-> "c", typeName |-> "T", isList |-> TRUE] >>]]

\* typeName arguments: a type of the map, a scalar type, and a name every
\* object inherits from Object.prototype.
TypeNames == {"T", "String", "toString"}

\* line 329: inputTypeInfoMap[typeName], as line 330 tests it: an own entry,
\* an inherited function (truthy, without fields), or undefined.
LookupType(map, typeName) ==
    IF typeName \in DOMAIN map THEN "info"
    ELSE IF typeName \in PrototypeKeys THEN "inherited"
    ELSE "undefined"

\* line 338: typeName in inputTypeInfoMap (own or inherited)
InMap(map, typeName) == typeName \in DOMAIN map \/ typeName \in PrototypeKeys

\* line 335: proposedInput[fieldName] on a value that is not undefined or
\* null: an own property of an object, undefined otherwise.
Get(value, name) ==
    IF value.kind = "object" /\ name \in DOMAIN value.props
    THEN value.props[name]
    ELSE Undefined

\* lines 343, 345, 349: result[fieldName] = ...
Put(props, name, value) ==
    [k \in DOMAIN props \cup {name} |-> IF k = name THEN value ELSE props[k]]

NoProps == [k \in {} |-> Undefined]

RECURSIVE TrimInput(_, _, _)
RECURSIVE TrimFields(_, _, _, _)
RECURSIVE TrimList(_, _, _)

\* lines 340-343: the items are trimmed one by one into a new list
TrimList(items, typeName, map) ==
    IF items = <<>> THEN List(<<>>)
    ELSE LET first == TrimInput(Head(items), typeName, map)
             rest == TrimList(Tail(items), typeName, map)
         IN IF first = TypeErrorThrown \/ rest = TypeErrorThrown
            THEN TypeErrorThrown
            ELSE List(<<first>> \o rest.items)

\* lines 333-354: the loop over the remaining fields, with the result built so
\* far.  Reading a property of undefined or null (335) raises a TypeError.
TrimFields(input, fields, map, result) ==
    IF fields = <<>> THEN Obj(result)
    ELSE IF input.kind \in {"undefined", "null"} THEN TypeErrorThrown
    ELSE LET f == Head(fields)
             field == Get(input, f.name)
         IN IF field.kind = "undefined"
            THEN TrimFields(input, Tail(fields), map, result)
            ELSE LET value ==
                        IF InMap(map, f.typeName)
                        THEN IF f.isList /\ field.kind = "list"
                             THEN TrimList(field.items, f.typeName, map)
                             ELSE TrimInput(field, f.typeName, map)
                        ELSE field
                 IN IF value = TypeErrorThrown
                    THEN TypeErrorThrown
                    ELSE TrimFields(input, Tail(fields), map,
                                    Put(result, f.name, value))

\* trimInput (lines 328-356).  An inherited function passes the test of line
\* 330 and has no fields, so the for-of of line 333 raises a TypeError.
TrimInput(input, typeName, map) ==
    CASE LookupType(map, typeName) = "undefined" -> input
      [] LookupType(map, typeName) = "inherited" -> TypeErrorThrown
      [] OTHER -> TrimFields(input, map[typeName].fields, map, NoProps)

\* The proposed inputs.  An optional property: absent, or one of the values.
Opt(name, values) == {NoProps} \cup {[k \in {name} |-> v] : v \in values}

Merge(f, g) ==
    [k \in DOMAIN f \cup DOMAIN g |-> IF k \in DOMAIN f THEN f[k] ELSE g[k]]

Leaves == {Undefined, Null, Scalar}

\* Objects in the place of a field: a declared scalar, an undeclared property
\* x, and a nested field that is null or an empty object.
NestedObjects ==
    {Obj(Merge(Merge(pa, pb), px)) :
        pa \in Opt("a", {Scalar}),
        pb \in Opt("b", {Null, Obj(NoProps)}),
        px \in Opt("x", {Scalar})}

ListItems == {Null, Scalar, Obj([k \in {"a", "x"} |-> Scalar])}

Lists == {List(items) : items \in UNION {[1..n -> ListItems] : n \in 0..MaxItems}}

FieldValues == Leaves \cup NestedObjects \cup Lists

ProposedInputs ==
    FieldValues
    \cup {Obj(Merge(Merge(pa, pb), Merge(pc, px))) :
            pa \in Opt("a", Leaves),
            pb \in Opt("b", FieldValues),
            pc \in Opt("c", FieldValues),
            px \in Opt("x", {Scalar})}

NewTrim(input, typeName) ==
    [pc |-> "new", input |-> input, typeName |-> typeName,
     once |-> Undefined, twice |-> Undefined]

IdleTrim == [NewTrim(Undefined, "String") EXCEPT !.pc = "idle"]

\* trimInput(input, typeName, map) is called.
Trim ==
    /\ trim.pc = "new"
    /\ trim' = [trim EXCEPT !.pc = "once",
                            !.once = TrimInput(trim.input, trim.typeName, TypeMap)]
    /\ UNCHANGED socketVars
    /\ UNCHANGED <<ctor, req>>

\* trimInput is called on what the first call returned.
TrimAgain ==
    /\ trim.pc = "once"
    /\ trim.once # TypeErrorThrown
    /\ trim' = [trim EXCEPT !.pc = "twice",
                            !.twice = TrimInput(trim.once, trim.typeName, TypeMap)]
    /\ UNCHANGED socketVars
    /\ UNCHANGED <<ctor, req>>

\* The subscription side: an Api constructed with http://a and no options
\* other than fetch, no run call in progress.
Init ==
    /\ SocketInit
    /\ ctor = Constructed(Http \o Sep \o <<"a">>, NoOption)
    /\ req = IdleRequest
    /\ trim = IdleTrim

Next ==
    \/ \E q \in Queries, n \in ChannelNames : Subscribe(q, n)
    \/ Open
    \/ \E h \in handles, f \in Handlers : OnData(h, f)
    \/ \E h \in handles : Close(h)
    \/ \E fn \in LogSinks : SetLog(fn)
    \/ \E frame \in Frames : OnMessage(frame)

Spec == Init /\ [][Next]_vars

\* The constructor alone, over every URL and wsUrl option of the bounded sets.
InitUrl ==
    /\ SocketInit
    /\ \E u \in Urls, o \in WsUrlOptions : ctor = NewApi(u, o)
    /\ req = IdleRequest
    /\ trim = IdleTrim

NextUrl == Construct

SpecUrl == InitUrl /\ [][NextUrl]_vars

\* One run call on an Api, over every configuration, argument and behaviour
\* of fetch of the bounded sets.
InitRun ==
    /\ SocketInit
    /\ ctor = Constructed(Http \o Sep \o <<"a">>, NoOption)
    /\ \E hs \in BOOLEAN, h \in HeaderConfigs : req = NewRequest(hs, h)
    /\ trim = IdleTrim

NextRun ==
    \/ \E q \in RunQueries, v \in VariableArgs : RunCall(q, v)
    \/ \E x \in FetchExceptions : FetchRejects(x)
    \/ \E b \in Bodies : FetchResolves(b)
    \/ JsonSettles
    \/ TextSettles

SpecRun == InitRun /\ [][NextRun]_vars

\* Calls of subscribe, close and run on one Api, interleaved in every order
\* (run's awaits included), with the transport opening and the server
\* acknowledging at any time.  The Api has an error handler configured.
ConnFrames == {f \in Frames : f.type = "connection_ack"}

ConnBodies ==
    {b \in Bodies :
        \/ b.kind = "garbage"
        \/ /\ b.kind = "object"
           /\ b.data = "D1"
           /\ b.errors \in {NoErrors, [present |-> TRUE, list |-> <<OtherEntry>>]}}

InitConn ==
    /\ SocketInit
    /\ ctor = Constructed(Http \o Sep \o <<"a">>, NoOption)
    /\ req = NewRequest(TRUE, NoHeaders)
    /\ trim = IdleTrim

NextConn ==
    \/ \E q \in Queries, n \in ChannelNames : Subscribe(q, n)
    \/ \E h \in handles : Close(h)
    \/ Open
    \/ \E frame \in ConnFrames : OnMessage(frame)
    \/ RunCall("q1", "omitted")
    \/ \E x \in FetchExceptions : FetchRejects(x)
    \/ \E b \in ConnBodies : FetchResolves(b)
    \/ JsonSettles
    \/ TextSettles

SpecConn == InitConn /\ [][NextConn]_vars

\* trimInput alone, over every proposed input and type name of the bounded
\* sets, applied once and then to its own result.
InitTrim ==
    /\ SocketInit
    /\ ctor = Constructed(Http \o Sep \o <<"a">>, NoOption)
    /\ req = IdleRequest
    /\ \E input \in ProposedInputs, t \in TypeNames : trim = NewTrim(input, t)

NextTrim ==
    \/ Trim
    \/ TrimAgain

SpecTrim == InitTrim /\ [][NextTrim]_vars

\* ---------------------------------------------------------------- properties

IsMessage(call, type) ==
    /\ call.op = "onmessage"
    /\ call.frame.kind = "object"
    /\ call.frame.type = type

StartsOnWire(w) == {i \in 1..Len(w) : w[i].type = "start"}

\* C1: while the handshake is still connecting (no connection_ack processed
\* yet) no start message has been passed to the WebSocket, and a subscribe
\* that succeeded in that state has left its start message as the last
\* deferred action.
C1_NoStartBeforeAck ==
    ~connected =>
        /\ StartsOnWire(wire) = {}
        /\ (lastCall.op = "subscribe" /\ threw = Returned) =>
              /\ connectedHandlers # <<>>
              /\ connectedHandlers[Len(connectedHandlers)].type = "start"
              /\ connectedHandlers[Len(connectedHandlers)].id = lastCall.id

\* C1 witness: the transport is open, connection_init is out, a second
\* subscribe has just been made and the handshake is still connecting.
C1_Witness ==
    /\ ~connected
    /\ wsOpen
    /\ lastCall.op = "subscribe"
    /\ threw = Returned
    /\ Len(connectedHandlers) = 2
    /\ Len(wire) = 1

\* C2 (as claimed): a connection_ack processed when the handshake is already
\* established sends nothing, so no start message goes out a second time.
C2_AckIsOneShot ==
    [][(connected /\ IsMessage(lastCall', "connection_ack")) => wire' = wire]_vars

\* The channel names in the order their subscribe calls succeeded.
SubscribedNames ==
    [i \in 1..Len(objects) |-> (CHOOSE h \in handles : h.obj = i).name]

\* C3: the connection_ack that establishes the handshake appends to the
\* outbound history exactly the start messages of the subscribe calls made so
\* far (all made while connecting), in call order and with nothing in between.
C3_FlushInCallOrder ==
    [][(~connected /\ IsMessage(lastCall', "connection_ack")) =>
        /\ Len(wire') = Len(wire) + Len(objects)
        /\ SubSeq(wire', 1, Len(wire)) = wire
        /\ \A i \in 1..Len(objects) :
              /\ wire'[Len(wire) + i].type = "start"
              /\ wire'[Len(wire) + i].id = SubscribedNames[i]]_vars

\* C3 witness: two subscribe calls were deferred and the acknowledgement has
\* just flushed them behind connection_init.
C3_Witness ==
    /\ IsMessage(lastCall, "connection_ack")
    /\ connected
    /\ Len(connectedHandlers) = 2
    /\ Len(wire) = 3
    /\ wire[2].id = SubscribedNames[1]
    /\ wire[3].id = SubscribedNames[2]

\* C4 (as claimed): a subscribe that follows close() on the handle of the
\* same channel name succeeds.
C4_ReuseAfterClose ==
    [][(/\ lastCall.op = "close"
        /\ lastCall'.op = "subscribe"
        /\ lastCall'.id = lastCall.id) => threw' = Returned]_vars

\* C5 (as claimed): close() on a handle removes the channel's registration,
\* and a data message for that channel that follows it invokes no handler.
C5_CloseUnregisters ==
    [][/\ lastCall'.op = "close" => lastCall'.id \notin DOMAIN subscriptions'
       /\ (/\ lastCall.op = "close"
           /\ IsMessage(lastCall', "data")
           /\ lastCall'.frame.id = lastCall.id) => invoked' = <<>>]_vars

\* C6: a subscribe for a channel name that has a registration throws the
\* duplicate-channel Error and leaves the registrations, their objects and
\* handlers, the handles, the deferred actions and the outbound history as
\* they were.
C6_DuplicateRejected ==
    [][(/\ lastCall'.op = "subscribe"
        /\ socket
        /\ lastCall'.id \in DOMAIN subscriptions) =>
            /\ threw' = Thrown("Error",
                   <<"Subscription already exists for channel", lastCall'.id>>)
            /\ subscriptions' = subscriptions
            /\ objects' = objects
            /\ handles' = handles
            /\ lastAttached' = lastAttached
            /\ connectedHandlers' = connectedHandlers
            /\ wire' = wire]_vars

\* C6 witness: a duplicate subscribe has just been rejected for a channel whose
\* registration still carries its handler.
C6_Witness ==
    /\ lastCall.op = "subscribe"
    /\ threw.name = "Error"
    /\ lastCall.id \in DOMAIN subscriptions
    /\ objects[subscriptions[lastCall.id]].dataHandler \in Handlers

\* C7: once the handshake is established, every registered channel has had
\* its start message passed to the WebSocket.
C7_EveryChannelStarted ==
    connected =>
        \A n \in DOMAIN subscriptions :
            \E i \in StartsOnWire(wire) : wire[i].id = n

\* C7 witness: established, with one channel whose start was deferred and
\* flushed by the acknowledgement and one subscribed (and started) afterwards.
C7_Witness ==
    /\ connected
    /\ lastCall.op = "subscribe"
    /\ threw = Returned
    /\ Len(connectedHandlers) = 1
    /\ Cardinality(DOMAIN subscriptions) = 2

\* The handles returned for a channel name.
HandlesOf(n) == {h \in handles : h.name = n}

\* C8: a data message with a payload, for a channel whose handle has had a
\* handler attached, makes exactly one handler call: the handler last passed
\* to that handle's onData, on that channel's object, with payload.data.
C8_DataReachesLastHandler ==
    (/\ IsMessage(lastCall, "data")
     /\ lastCall.frame.payload.present
     /\ \E h \in HandlesOf(lastCall.frame.id) : lastAttached[h.obj] # NoHandler)
    => \E h \in HandlesOf(lastCall.frame.id) :
          invoked = <<[obj |-> h.obj,
                       handler |-> lastAttached[h.obj],
                       data |-> lastCall.frame.payload.data]>>

\* C8 witness: two channels carry handlers, one of them replaced by a second
\* onData, and a data message has just been delivered to the replaced one.
C8_Witness ==
    /\ IsMessage(lastCall, "data")
    /\ Len(invoked) = 1
    /\ invoked[1].handler = "f2"
    /\ Len(objects) = 2
    /\ \A i \in 1..2 : objects[i].dataHandler \in Handlers
    /\ objects[1].dataHandler # objects[2].dataHandler

\* C9: a data message for a channel name with no handle, or whose handle has
\* had no handler attached, returns normally, calls no handler, changes nothing
\* of the Socket and passes one diagnostic to the log function if one is set
\* (nothing otherwise).
C9_UnroutedDataIsDropped ==
    [][(/\ IsMessage(lastCall', "data")
        /\ \A h \in HandlesOf(lastCall'.frame.id) : lastAttached[h.obj] = NoHandler)
       => /\ threw' = Returned
          /\ invoked' = <<>>
          /\ <<socket, connected, connectedHandlers, subscriptions, objects,
               handles, socketLog, wsOpen, wire>>' =
             <<socket, connected, connectedHandlers, subscriptions, objects,
               handles, socketLog, wsOpen, wire>>
          /\ logged' = IF socketLog = NoLog
                       THEN <<>>
                       ELSE << <<"graphqlx:", "data received for channel",
                                 lastCall'.frame.id,
                                 "with no subscription handler">> >>]_vars

\* C9 witness: a data message for a registered channel without a handler has
\* just been reported to the log function.
C9_Witness ==
    /\ IsMessage(lastCall, "data")
    /\ lastCall.frame.id \in DOMAIN subscriptions
    /\ objects[subscriptions[lastCall.frame.id]].dataHandler = NoHandler
    /\ socketLog \in LogSinks
    /\ Len(logged) = 1
    /\ threw = Returned

\* A frame that is not JSON, not a JSON object, a data message without a
\* payload, or a message of an unrecognised type.
Malformed(frame) ==
    \/ frame.kind # "object"
    \/ frame.type = "data" /\ ~frame.payload.present
    \/ frame.type = "bogus"

\* C10 (as claimed): the message handler returns normally for every malformed
\* or unexpected frame.
C10_MalformedNeverThrows ==
    (lastCall.op = "onmessage" /\ Malformed(lastCall.frame)) => threw = Returned

\* The diagnostics the last call made visible: the strings given to the log
\* function, and the message of an Error it threw.
Surfaced ==
    {logged[i] : i \in 1..Len(logged)}
    \cup (IF threw.name = "Error" THEN {threw.message} ELSE {})

Mentions(parts, text) == \E i \in 1..Len(parts) : parts[i] = text

\* C11 (as claimed): every subscription_fail or error message, with or without
\* a payload, surfaces a diagnostic that names the channel id and carries the
\* server's message text when there is one.
C11_FailureIsReported ==
    (lastCall.op = "onmessage"
        /\ lastCall.frame.kind = "object"
        /\ lastCall.frame.type \in {"subscription_fail", "error"})
    => \E d \in Surfaced :
          /\ Mentions(d, lastCall.frame.id)
          /\ (lastCall.frame.payload.present
                /\ lastCall.frame.payload.message # "undefined")
             => Mentions(d, lastCall.frame.payload.message)

\* C12 (as claimed): a log function assigned to the Api before its socket
\* exists is the log function of the socket that the first subscribe creates.
C12_EarlySinkIsKept ==
    [][(/\ lastCall.op = "set log"
        /\ ~socket
        /\ lastCall'.op = "subscribe") => socketLog' = lastCall.fn]_vars

\* C18: nothing is sent before the transport opens; from then on the first
\* frame of the outbound history is connection_init with the headers as
\* payload, and every later frame is a start message.
C18_InitOnceAndFirst ==
    /\ ~wsOpen => wire = <<>>
    /\ wsOpen =>
          /\ wire # <<>>
          /\ wire[1] = [id |-> "undefined", type |-> "connection_init",
                        payload |-> "headers"]
          /\ \A i \in 2..Len(wire) : wire[i].type = "start"

\* C18 witness: one subscribe before the transport opened, one after the
\* acknowledgement; both start messages are out behind connection_init.
C18_Witness ==
    /\ wsOpen
    /\ connected
    /\ lastCall.op = "subscribe"
    /\ threw = Returned
    /\ Len(connectedHandlers) = 1
    /\ Len(wire) = 3

\* The channel URL the derivation rule asks for: ws for http, wss for https,
\* then the URL from its "://" on, unchanged.
ExpectedWsUrl(url) ==
    LET protocol == MatchProtocol(url)
    IN <<"w", "s">> \o (IF protocol = Https THEN <<"s">> ELSE <<>>)
          \o SubSeq(url, Len(protocol) + 1, Len(url))

\* C19 (as claimed): for a URL that starts with http:// or https://, the
\* constructed Api's wsUrl is the explicit option when one is given, and
\* otherwise the URL with its scheme replaced and the rest unchanged.
C19_WsUrlDerivation ==
    (ctor.pc = "done" /\ MatchProtocol(ctor.url) # <<>>) =>
        /\ ctor.threw = "none"
        /\ ctor.wsUrl = IF ctor.option # NoOption
                        THEN ctor.option
                        ELSE ExpectedWsUrl(ctor.url)

\* ---------------------------------------------------------------- properties of run

RunDone == req.pc = "done"

NetworkFailed == req.fetchError # NoValue

\* The response is an object whose errors member is a non-empty list.
ErrorsReturned ==
    /\ req.response.kind = "object"
    /\ req.response.errors.present
    /\ req.response.errors.list # <<>>

FirstError == ParsedEntry(req.response.errors.list[1])

\* The message of a request/field error: the first entry's message.
RequestErrorMessage ==
    IF FirstError.hasMessage THEN FirstError.message ELSE DefaultMessage

IsInvalidResponseMessage(m) == IsPrefix(<<"Invalid GraphQL response">>, m)

Includes(hay, needle) ==
    \E i \in 0..(Len(hay) - Len(needle)) :
        SubSeq(hay, i + 1, i + Len(needle)) = needle

\* C13 (as claimed): when the response parses with a non-empty errors list,
\* run rejects with the request/field error of the first entry, and neither
\* that error nor any message given to the handler is the invalid-response one.
C13_ErrorsAreRequestErrors ==
    (RunDone /\ ErrorsReturned) =>
        /\ req.outcome.status = "rejected"
        /\ req.outcome.error.message = RequestErrorMessage
        /\ ~IsInvalidResponseMessage(req.outcome.error.message)
        /\ \A i \in 1..Len(req.handlerCalls) :
              ~IsInvalidResponseMessage(req.handlerCalls[i].msg)

\* C14 (as claimed): with no handler configured and a non-empty errors list,
\* run rejects, and the error's message includes the first entry's message.
C14_ErrorMessageIncluded ==
    (RunDone /\ ErrorsReturned /\ ~req.handlerSet) =>
        /\ req.outcome.status = "rejected"
        /\ FirstError.hasMessage =>
              Includes(req.outcome.error.message, FirstError.message)

\* C15: when fetch throws or rejects and a handler is configured, the handler
\* has been called once, with the network-error message, run has rejected and
\* no response has been read.
C15_NetworkFailureReported ==
    (RunDone /\ NetworkFailed /\ req.handlerSet) =>
        /\ Len(req.handlerCalls) = 1
        /\ req.handlerCalls[1].msg = <<"GraphQL Network Error">>
        /\ req.outcome.status = "rejected"
        /\ req.reads = <<>>

\* C15 witness: run has ended after a rejected fetch, with a handler configured.
C15_Witness ==
    /\ RunDone
    /\ NetworkFailed
    /\ req.handlerSet
    /\ req.handlerCalls # <<>>

\* C16 (as claimed): every call of the handler made by a failing run carries
\* as second argument the underlying error: fetch's exception, the parse
\* exception, or the first error entry.
C16_HandlerGetsUnderlyingError ==
    (RunDone /\ req.handlerSet /\ req.outcome.status = "rejected") =>
        \A i \in 1..Len(req.handlerCalls) :
            IF NetworkFailed THEN req.handlerCalls[i].err = req.fetchError
            ELSE IF ErrorsReturned THEN req.handlerCalls[i].err = FirstError
            ELSE req.handlerCalls[i].err.is = "exception"

\* C17: when the response is an object whose errors member is absent or an
\* empty list, run resolves with the data member as it is (undefined when
\* absent, null when null) and the handler is not called.
C17_DataReturnedAsIs ==
    (/\ RunDone
     /\ req.response.kind = "object"
     /\ (~req.response.errors.present \/ req.response.errors.list = <<>>))
    => /\ req.outcome =
            [status |-> "resolved",
             value |-> IF req.response.data = "absent"
                       THEN "undefined" ELSE req.response.data,
             error |-> NoValue]
       /\ req.handlerCalls = <<>>

\* C17 witness: a response with an empty errors list and a null data has been
\* returned, with a handler configured.
C17_Witness ==
    /\ RunDone
    /\ req.handlerSet
    /\ req.response.kind = "object"
    /\ req.response.errors.present
    /\ req.response.data = "null"
    /\ req.outcome.status = "resolved"

\* C20: a run call makes one fetch call; its body is the serialization of
\* {query, variables}, and its headers are the standard headers and the
\* configured ones, with the configured value for every configured name.
C20_RequestShape ==
    req.pc # "idle" =>
        /\ Len(req.fetchCalls) = 1
        /\ req.fetchCalls[1].body =
              <<"{query:", req.query, ",variables:",
                IF req.variables = "omitted" THEN "{}" ELSE req.variables, "}">>
        /\ DOMAIN req.fetchCalls[1].headers =
              {"Content-type", "Accept"} \cup DOMAIN req.headers
        /\ \A k \in DOMAIN req.fetchCalls[1].headers :
              req.fetchCalls[1].headers[k] =
                 IF k \in DOMAIN req.headers THEN req.headers[k]
                 ELSE "application/json"

\* C20 witness: a run with variables, on an Api whose configured headers
\* share a name with the standard ones, has completed.
C20_Witness ==
    /\ RunDone
    /\ req.variables = "{x:1}"
    /\ DOMAIN req.headers = {"Authorization", "Content-type"}
    /\ req.outcome.status = "resolved"

\* C21 (as claimed): a run call that has failed on an Api with a handler
\* configured has called the handler exactly once, whatever the failure.
C21_HandlerCalledOnce ==
    (RunDone /\ req.handlerSet /\ req.outcome.status = "rejected") =>
        Len(req.handlerCalls) = 1

\* Inbound message types that are neither a failure, data nor the
\* acknowledgement: keep-alive, init_fail, subscription_success, unrecognised.
PassiveTypes == {"ka", "init_fail", "subscription_success", "bogus"}

\* C22: processing a ka, init_fail, subscription_success or unrecognised
\* message leaves the Socket's handshake state, registrations, attached
\* handlers and deferred actions as they were and sends nothing; a ka also
\* passes nothing to the log function; and the handshake state changes only
\* when a connection_ack is processed.
C22_PassiveMessages ==
    [][/\ (\E t \in PassiveTypes : IsMessage(lastCall', t)) =>
            /\ connected' = connected
            /\ subscriptions' = subscriptions
            /\ objects' = objects
            /\ connectedHandlers' = connectedHandlers
            /\ wire' = wire
            /\ threw' = Returned
       /\ IsMessage(lastCall', "ka") => logged' = <<>>
       /\ connected' # connected => IsMessage(lastCall', "connection_ack")]_vars

\* C22 witness: an init_fail has just been processed while the handshake is
\* still connecting, with two start messages deferred, a handler attached and a
\* log function set: the diagnostic is its only effect.
C22_Witness ==
    /\ IsMessage(lastCall, "init_fail")
    /\ ~connected
    /\ Len(connectedHandlers) = 2
    /\ wire = <<InitMessage>>
    /\ \E i \in 1..Len(objects) : objects[i].dataHandler \in Handlers
    /\ socketLog \in LogSinks
    /\ Len(logged) = 1

\* A step in which a subscribe call returned a handle.
Subscribed == Len(objects') = Len(objects) + 1

\* C23: over subscribe, close and run calls in any order, at most one Socket
\* is ever constructed; it is constructed by the first subscribe that returns,
\* never by a step of run; and every later subscribe that returns keeps that
\* Socket (its transport and handshake state), adds its channel to that
\* Socket's registrations and keeps the others, and puts its start message on
\* that Socket's transport or, while connecting, at the end of its deferred
\* actions.
C23_OneSocket ==
    [][/\ created' <= 1
       /\ socket' = (created' = 1)
       /\ created' # created => (Subscribed /\ objects = <<>>)
       /\ req' # req => (created' = created /\ socket' = socket)
       /\ (Subscribed /\ objects = <<>>) => created' = 1
       /\ (Subscribed /\ objects # <<>>) =>
            /\ created' = created
            /\ wsOpen' = wsOpen
            /\ connected' = connected
            /\ DOMAIN subscriptions' = DOMAIN subscriptions \cup {lastCall'.id}
            /\ \A n \in DOMAIN subscriptions : subscriptions'[n] = subscriptions[n]
            /\ subscriptions'[lastCall'.id] = Len(objects')
            /\ IF connected
               THEN /\ wire' = Append(wire, [id |-> lastCall'.id, type |-> "start",
                                             payload |-> "q1"])
                    /\ connectedHandlers' = connectedHandlers
               ELSE /\ wire' = wire
                    /\ connectedHandlers' =
                          Append(connectedHandlers,
                                 [id |-> lastCall'.id, type |-> "start",
                                  payload |-> "q1"])]_vars

\* C23 witness: a run call has failed and ended, and a second subscribe has
\* just returned on the established Socket: one Socket was constructed, it
\* carries both channels and both start messages went out on its transport.
C23_Witness ==
    /\ created = 1
    /\ req.pc = "done"
    /\ req.outcome.status = "rejected"
    /\ lastCall.op = "subscribe"
    /\ threw = Returned
    /\ connected
    /\ Cardinality(DOMAIN subscriptions) = 2
    /\ Len(wire) = 3

\* ---------------------------------------------------------------- properties of trimInput

DeclaredFields(typeName) ==
    {TypeMap[typeName].fields[i] : i \in 1..Len(TypeMap[typeName].fields)}

Defined(value) == value.kind # "undefined"

\* The value is an object that has only declared fields of the type, and the
\* same holds, for every field whose type is an input type, of the field's
\* value, or of each of its items when the field is a list holding an array.
RECURSIVE TrimmedTo(_, _)
TrimmedTo(value, typeName) ==
    /\ value.kind = "object"
    /\ \A k \in DOMAIN value.props :
          \E f \in DeclaredFields(typeName) :
             /\ f.name = k
             /\ f.typeName \in DOMAIN TypeMap =>
                   IF f.isList /\ value.props[k].kind = "list"
                   THEN \A j \in 1..Len(value.props[k].items) :
                           TrimmedTo(value.props[k].items[j], f.typeName)
                   ELSE TrimmedTo(value.props[k], f.typeName)

\* What the claim says of a call that has been made.
TrimResult ==
    IF trim.typeName \in DOMAIN TypeMap
    THEN /\ trim.once.kind = "object"
         /\ \A k \in DOMAIN trim.once.props :
               /\ \E f \in DeclaredFields(trim.typeName) : f.name = k
               /\ Defined(Get(trim.input, k))
         /\ \A f \in DeclaredFields(trim.typeName) :
               Defined(Get(trim.input, f.name)) =>
                  /\ f.name \in DOMAIN trim.once.props
                  /\ f.typeName \notin DOMAIN TypeMap =>
                        trim.once.props[f.name] = Get(trim.input, f.name)
         /\ TrimmedTo(trim.once, trim.typeName)
         /\ trim.pc = "twice" => trim.twice = trim.once
    ELSE trim.once = trim.input

\* C24 (as claimed): for every proposed input that is an object, trimInput
\* returns; for a type of the map the result is an object whose keys are
\* declared fields with a defined value in the input, scalar fields are
\* copied, fields of an input type are trimmed recursively (item by item for
\* lists) and a second application returns an equal result; for a type name
\* that is not in the map the input itself is returned.
C24_TrimInput ==
    (trim.pc \in {"once", "twice"} /\ trim.input.kind = "object") => TrimResult

=============================================================================
